---------------------------- MODULE Spec2Model ----------------------------
(*
  Verification model of the bubble-segmentation repository:
    - model/resnet18.py   ResNet18CNN (construction, forward shape arithmetic),
                          UpConvResnet (upsample + align + concatenate)
    - loss/dice_focal.py  DiceFocalLoss.forward
    - dataloader.py       UltrasoundSegmentationDataset, the joint transforms,
                          create_ultrasound_dataloaders
    - test.py             get_test_loader, evaluate, save_metrics_to_csv, main
    - run_all.py          the sweep over (model, loss) combinations

  Five components, each with its own specification over the same variables
  (SpecNet, SpecLoss, SpecData, SpecTest, SpecSweep); Spec is their union.  A component that is
  not exercised stays in its idle state.
*)
EXTENDS Integers, Sequences, FiniteSets, Bags, TLC

VARIABLES
    net_pc,      \* "idle" | "new" | "built" | "ran" | "failed"
    net,         \* the ResNet18CNN instance (its construction arguments and first conv)
    net_in,      \* shape <<B, C, H, W>> of the last input given to a forward
    net_cats,    \* the concatenations of the last forward, in execution order
    net_out,     \* shape of the logits returned by the last forward, or <<>>
    net_err,     \* "none" or the error the last call raised
    loss_pc,     \* "idle" | "ready" | "done" | "permuted" | "done2" | "failed"
    loss_shape,  \* shape <<B, C, H, W>> of logits and targets
    loss_logits, \* the logits, flattened in row-major order
    loss_targets,\* the {0,1} targets, flattened in row-major order
    loss_res,    \* what the last DiceFocalLoss.forward computed
    loss_prev,   \* what forward computed before the batch was permuted
    data_pc,     \* "idle" | "fs" | "loaders" | "batch" | "failed"
    image_dir,   \* the file names in image_dir
    label_dir,   \* the file names in label_dir, in os.listdir order
    disk_size,   \* size <<width, height>> of the image files on disk
    dataset,     \* the UltrasoundSegmentationDataset
    loaders,     \* the train and val loaders (the sample indices of each)
    batch,       \* the batch a loader yielded last
    test_pc,     \* "idle" | "main" | "eval" | "saved" | "failed" (test.py main)
    config,      \* the Config settings test.py reads
    test_fs,     \* the test directories, the checkpoint, the files main writes
    test_loader, \* the dataset behind the test loader
    test_idx,    \* number of batches the loop of evaluate has taken
    test_calls,  \* the targets last passed to the criterion and to the metrics
    test_err,    \* "none" or the error main ended with
    sweep_pc,    \* "idle" | "loop" | "training" | "trained" | "testing" | "done" | "failed"
    sweep_combos,\* itertools.product(model_names, loss_functions)
    sweep_i,     \* number of combinations the sweep has completed
    sweep_env,   \* os.environ after the last iteration started
    sweep_log,   \* the subprocesses started so far, with their exit status
    sweep_out    \* the lines printed so far

netvars == <<net_pc, net, net_in, net_cats, net_out, net_err>>

lossvars == <<loss_pc, loss_shape, loss_logits, loss_targets, loss_res, loss_prev>>

datavars == <<data_pc, image_dir, label_dir, disk_size, dataset, loaders, batch>>

testvars == <<test_pc, config, test_fs, test_loader, test_idx, test_calls, test_err>>

sweepvars == <<sweep_pc, sweep_combos, sweep_i, sweep_env, sweep_log, sweep_out>>

vars == <<netvars, lossvars, datavars, testvars, sweepvars>>

--------------------------------------------------------------------------
(* Bounds of the network model *)

MaxSide == 66    \* input heights and widths range over 1..MaxSide
MaxBatch == 2    \* batch sizes range over 1..MaxBatch
MaxUp == 4       \* sides of the tensors given to a stand-alone UpConvResnet

InChannelChoices == {1, 3}
NumClassChoices == {1, 5}

--------------------------------------------------------------------------
(* Shape arithmetic of the layers used by ResNet18CNN *)

\* nn.Conv2d / nn.MaxPool2d output side: floor((n + 2p - k) / s) + 1
ConvOut(n, k, s, p) == ((n + 2 * p - k) \div s) + 1

\* resnet conv1: kernel 7, stride 2, padding 3 (kept when the layer is rebuilt)
EncoderConv1(n) == ConvOut(n, 7, 2, 3)

\* resnet maxpool: kernel 3, stride 2, padding 1
EncoderMaxpool(n) == ConvOut(n, 3, 2, 1)

\* resnet layer1: 3x3 convolutions, stride 1, padding 1
EncoderLayer1(n) == ConvOut(n, 3, 1, 1)

\* resnet layer2..layer4: first 3x3 convolution has stride 2, padding 1
EncoderLayerDown(n) == ConvOut(ConvOut(n, 3, 2, 1), 3, 1, 1)

\* ConvBlock: two 3x3 convolutions with padding 1 keep the side
ConvBlockOut(n) == ConvOut(ConvOut(n, 3, 1, 1), 3, 1, 1)

\* nn.ConvTranspose2d(kernel_size=2, stride=2): (n - 1) * 2 + 2
UpTranspose(n) == (n - 1) * 2 + 2

InterpolateMutant(n) == n

\* F.interpolate(scale_factor=2): floor(n * 2)
Interpolate(n) == n * 2

PadSplitMutant(diff) == <<diff \div 2, diff \div 2>>

\* the two pad amounts for one axis: [diff // 2, diff - diff // 2]
PadSplit(diff) == <<diff \div 2, diff - (diff \div 2)>>

\* F.pad on one axis (negative amounts crop)
PadSide(n, split) == n + split[1] + split[2]

\* UpConvResnet.forward up to torch.cat: x1 and x2 are <<height, width>>
UpConvAlign(stage, x1, x2) ==
    LET upH == UpTranspose(x1[1])
        upW == UpTranspose(x1[2])
        diffY == x2[1] - upH
        diffX == x2[2] - upW
        padY == PadSplit(diffY)
        padX == PadSplit(diffX)
    IN  [stage |-> stage, skip |-> x2, up |-> <<upH, upW>>,
         diffY |-> diffY, diffX |-> diffX, padded |-> TRUE,
         padY |-> padY, padX |-> padX,
         dec |-> <<PadSide(upH, padY), PadSide(upW, padX)>>]

\* the final stage of ResNet18CNN.forward up to torch.cat
FinalAlign(d2, x0) ==
    LET upH == Interpolate(d2[1])
        upW == Interpolate(d2[2])
        diffY == x0[1] - upH
        diffX == x0[2] - upW
        doPad == diffY > 0 \/ diffX > 0
        padY == IF doPad THEN PadSplit(diffY) ELSE <<0, 0>>
        padX == IF doPad THEN PadSplit(diffX) ELSE <<0, 0>>
    IN  [stage |-> "final", skip |-> x0, up |-> <<upH, upW>>,
         diffY |-> diffY, diffX |-> diffX, padded |-> doPad,
         padY |-> padY, padX |-> padX,
         dec |-> <<PadSide(upH, padY), PadSide(upW, padX)>>]

\* torch.cat along dim 1 needs equal height and width
CatOk(c) == c.dec = c.skip

\* the encoder of ResNet18CNN.forward: the sizes of x0, e1, e2, e3, e4
Encoder(H, W) ==
    LET x0 == <<EncoderConv1(H), EncoderConv1(W)>>
        p0 == <<EncoderMaxpool(x0[1]), EncoderMaxpool(x0[2])>>
        e1 == <<EncoderLayer1(p0[1]), EncoderLayer1(p0[2])>>
        e2 == <<EncoderLayerDown(e1[1]), EncoderLayerDown(e1[2])>>
        e3 == <<EncoderLayerDown(e2[1]), EncoderLayerDown(e2[2])>>
        e4 == <<EncoderLayerDown(e3[1]), EncoderLayerDown(e3[2])>>
    IN  [x0 |-> x0, e1 |-> e1, e2 |-> e2, e3 |-> e3, e4 |-> e4]

\* the decoder of ResNet18CNN.forward: the four concatenations, in order.
\* A stage's output has the size of its concatenation (ConvBlock keeps it).
Decoder(enc) ==
    LET c4 == UpConvAlign("up4", enc.e4, enc.e3)
        d4 == <<ConvBlockOut(c4.skip[1]), ConvBlockOut(c4.skip[2])>>
        c3 == UpConvAlign("up3", d4, enc.e2)
        d3 == <<ConvBlockOut(c3.skip[1]), ConvBlockOut(c3.skip[2])>>
        c2 == UpConvAlign("up2", d3, enc.e1)
        d2 == <<ConvBlockOut(c2.skip[1]), ConvBlockOut(c2.skip[2])>>
        c1 == FinalAlign(d2, enc.x0)
    IN  <<c4, c3, c2, c1>>

\* index of the first concatenation torch.cat rejects, 0 when all succeed
FirstBadCat(cats) ==
    IF \A i \in 1..Len(cats) : CatOk(cats[i]) THEN 0
    ELSE CHOOSE i \in 1..Len(cats) :
            /\ ~CatOk(cats[i])
            /\ \A j \in 1..(i - 1) : CatOk(cats[j])

\* the logits' shape: up1_conv keeps x0's size, the last interpolate doubles
\* it, out_conv (1x1) maps 64 channels to num_classes
LogitsShape(B, numClasses, x0) ==
    <<B, numClasses, Interpolate(ConvBlockOut(x0[1])), Interpolate(ConvBlockOut(x0[2]))>>

--------------------------------------------------------------------------
(* ResNet18CNN: construction and forward *)

NoNet == [in_channels |-> 0, num_classes |-> 0, pretrained |-> FALSE,
          weights |-> "none", conv1 |-> "none"]

\* ResNet18CNN.__init__: no combination of arguments is rejected
NewNet(inCh, numClasses, pretrained) ==
    [in_channels |-> inCh, num_classes |-> numClasses, pretrained |-> pretrained,
     weights |-> IF pretrained THEN "ResNet18_Weights.DEFAULT" ELSE "None",
     conv1 |-> IF inCh # 3 THEN "fresh" ELSE "original"]

StartNet ==
    /\ net_pc = "new"
    /\ net = NoNet
    /\ net_in = <<>>
    /\ net_cats = <<>>
    /\ net_out = <<>>
    /\ net_err = "none"

IdleNet ==
    /\ net_pc = "idle"
    /\ net = NoNet
    /\ net_in = <<>>
    /\ net_cats = <<>>
    /\ net_out = <<>>
    /\ net_err = "none"

Construct ==
    /\ net_pc = "new"
    /\ \E inCh \in InChannelChoices, nc \in NumClassChoices, pre \in BOOLEAN :
          net' = NewNet(inCh, nc, pre)
    /\ net_pc' = "built"
    /\ UNCHANGED <<net_in, net_cats, net_out, net_err>>
    /\ UNCHANGED <<lossvars, datavars, testvars, sweepvars>>

\* one forward pass of a constructed model on an input of shape <<B, C, H, W>>
Forward ==
    /\ net_pc = "built"
    /\ \E B \in 1..MaxBatch, H \in 1..MaxSide, W \in 1..MaxSide :
          LET cats == Decoder(Encoder(H, W))
              bad == FirstBadCat(cats)
          IN  /\ net_in' = <<B, net.in_channels, H, W>>
              /\ IF bad = 0
                 THEN /\ net_cats' = cats
                      /\ net_out' = LogitsShape(B, net.num_classes, cats[4].skip)
                      /\ net_err' = "none"
                      /\ net_pc' = "ran"
                 ELSE /\ net_cats' = SubSeq(cats, 1, bad)
                      /\ net_out' = <<>>
                      /\ net_err' = "RuntimeError: torch.cat sizes differ"
                      /\ net_pc' = "failed"
    /\ UNCHANGED net
    /\ UNCHANGED <<lossvars, datavars, testvars, sweepvars>>

\* a stand-alone UpConvResnet applied to tensors of arbitrary sizes
UpConvForward ==
    /\ net_pc \in {"new", "up"}
    /\ \E h1 \in 1..MaxUp, w1 \in 1..MaxUp, h2 \in 1..MaxUp, w2 \in 1..MaxUp :
          LET c == UpConvAlign("up", <<h1, w1>>, <<h2, w2>>)
          IN  /\ net_cats' = <<c>>
              /\ net_in' = <<h1, w1, h2, w2>>
              /\ net_out' = IF CatOk(c) THEN c.skip ELSE <<>>
              /\ net_err' = IF CatOk(c) THEN "none"
                            ELSE "RuntimeError: torch.cat sizes differ"
    /\ net_pc' = "up"
    /\ UNCHANGED net
    /\ UNCHANGED <<lossvars, datavars, testvars, sweepvars>>

--------------------------------------------------------------------------
(* DiceFocalLoss (loss/dice_focal.py)

   Real numbers are fixed-point integers in units of 1e-6, so that
   smooth = 1e-5 is SMOOTH = 10 units and 1.0 is ONE.  A tensor is its shape
   and its elements flattened in row-major order.  Sums of terms that involve
   the logarithm are kept as the terms themselves. *)

MaxElems == 4    \* tensors have at most MaxElems elements (B * C * H * W)
MaxLossBatch == 3 \* batches given to the loss have at most MaxLossBatch samples

SMOOTH == 10     \* smooth = 1e-5
GAMMA == 2       \* gamma = 2
ONE == 100000 * SMOOTH

LogitChoices == {-120, 12, 20}

\* torch.sigmoid on float32, rounded to 1e-6: sigmoid(-120) underflows to 0,
\* sigmoid(0) = 0.5, sigmoid(12) = 0.999994, sigmoid(20) rounds to 1.0
Sigmoid(x) ==
    CASE x = -120 -> 0
      [] x = -12  -> 6
      [] x = 0    -> ONE \div 2
      [] x = 12   -> ONE - 6
      [] x = 20   -> ONE

RECURSIVE NumElems(_)
NumElems(shape) ==
    IF shape = <<>> THEN 1 ELSE shape[1] * NumElems(Tail(shape))

\* position of element (b, c, h, w) of a rank-4 tensor in row-major order
FlatIndex(shape, m) ==
    (((m[1] - 1) * shape[2] + (m[2] - 1)) * shape[3] + (m[3] - 1)) * shape[4] + m[4]

\* the multi-index of the k-th element of a rank-4 tensor
Unflatten(shape, k) ==
    LET z == k - 1
    IN  <<(z \div (shape[2] * shape[3] * shape[4])) + 1,
          ((z \div (shape[3] * shape[4])) % shape[2]) + 1,
          ((z \div shape[4]) % shape[3]) + 1,
          (z % shape[4]) + 1>>

RECURSIVE SumSeq(_)
SumSeq(s) ==
    IF s = <<>> THEN 0 ELSE Head(s) + SumSeq(Tail(s))

\* x.sum(dim=(2, 3)) at batch b, channel c
SpatialSum(x, shape, b, c) ==
    SumSeq([k \in 1..(shape[3] * shape[4]) |->
               x[FlatIndex(shape, <<b, c, ((k - 1) \div shape[4]) + 1,
                                    ((k - 1) % shape[4]) + 1>>)]])

DiceMutant(inter, union) == <<inter + SMOOTH, union + SMOOTH>>

\* dice = (2 * intersection + smooth) / (union + smooth), as <<num, den>>
Dice(inter, union) == <<2 * inter + SMOOTH, union + SMOOTH>>

\* the (B, C) tensor of Dice coefficients, flattened
DiceTerms(probs, targets, shape) ==
    [k \in 1..(shape[1] * shape[2]) |->
        LET b == ((k - 1) \div shape[2]) + 1
            c == ((k - 1) % shape[2]) + 1
            n == NumElems(shape)
            inter == SpatialSum([i \in 1..n |-> probs[i] * targets[i]], shape, b, c)
            union == SpatialSum(probs, shape, b, c)
                       + SpatialSum([i \in 1..n |-> targets[i] * ONE], shape, b, c)
        IN  Dice(inter, union)]

RECURSIVE GCD(_, _)
GCD(a, b) == IF b = 0 THEN a ELSE GCD(b, a % b)

RatNorm(q) == LET g == GCD(q[1], q[2]) IN <<q[1] \div g, q[2] \div g>>

RatAdd(a, b) == RatNorm(<<a[1] * b[2] + b[1] * a[2], a[2] * b[2]>>)

RECURSIVE RatSum(_)
RatSum(s) == IF s = <<>> THEN <<0, 1>> ELSE RatAdd(RatNorm(Head(s)), RatSum(Tail(s)))

\* dice_loss = 1 - dice.mean(), as a reduced fraction
RegionLoss(dice) ==
    LET total == RatSum(dice)
        n == Len(dice)
    IN  RatNorm(<<total[2] * n - total[1], total[2] * n>>)

FlattenTargetsMutant(targets, shape) ==
    LET per == shape[2] * shape[3] * shape[4]
    IN  [shape |-> <<per>>, data |-> SubSeq(targets, 1, per)]

\* targets.reshape(-1): a rank-1 tensor of all the elements
FlattenTargets(targets, shape) ==
    [shape |-> <<NumElems(shape)>>, data |-> targets]

\* a shape of rank <= 4 with 1s prepended, as broadcasting aligns trailing axes
Pad4(shape) ==
    [d \in 1..4 |-> IF d + Len(shape) - 4 >= 1 THEN shape[d + Len(shape) - 4] ELSE 1]

\* torch broadcasting: aligned axes are equal or one of them is 1
Broadcastable(shapeA, shapeB) ==
    \A d \in 1..4 : \/ Pad4(shapeA)[d] = Pad4(shapeB)[d]
                    \/ Pad4(shapeA)[d] = 1
                    \/ Pad4(shapeB)[d] = 1

BroadcastShape(shapeA, shapeB) ==
    [d \in 1..4 |-> IF Pad4(shapeA)[d] = 1 THEN Pad4(shapeB)[d] ELSE Pad4(shapeA)[d]]

\* the element of an operand that takes part in element m of the result
BroadcastIndex(shape, m) ==
    FlatIndex(Pad4(shape), [d \in 1..4 |-> IF Pad4(shape)[d] = 1 THEN 1 ELSE m[d]])

\* p_t = targets * inputs + (1 - targets) * (1 - inputs)
PtValue(t, p) == t * p + (1 - t) * (ONE - p)

\* sign of x ** gamma
PowSign(x, g) ==
    IF g = 0 THEN 1
    ELSE IF x = 0 THEN 0
    ELSE IF x > 0 \/ g % 2 = 0 THEN 1 ELSE -1

\* sign of torch.log(x) for x > 0
LogSign(x) == IF x < ONE THEN -1 ELSE IF x = ONE THEN 0 ELSE 1

FocalSignMutant(pt) == PowSign(ONE - pt, GAMMA) * LogSign(pt + SMOOTH)

\* sign of - (1 - p_t) ** gamma * log(p_t + smooth)
FocalSign(pt) == -(PowSign(ONE - pt, GAMMA) * LogSign(pt + SMOOTH))

\* the focal term tensor, flattened: for each element the operand positions
\* it pairs, its p_t and the sign of its loss
FocalTerms(probs, shape, tflat) ==
    LET rshape == BroadcastShape(tflat.shape, shape)
    IN  [k \in 1..NumElems(rshape) |->
            LET m == Unflatten(rshape, k)
                pi == BroadcastIndex(shape, m)
                ti == BroadcastIndex(tflat.shape, m)
                pt == PtValue(tflat.data[ti], probs[pi])
            IN  [p |-> pi, t |-> ti, pt |-> pt, sign |-> FocalSign(pt)]]

NoRes == [status |-> "none", dice |-> <<>>, terms |-> <<>>]

\* DiceFocalLoss.forward: the terms of the two means of the returned scalar
\*   dice_weight * (1 - mean(dice)) + focal_weight * mean(focal terms)
DiceFocalForward(logits, targets, shape) ==
    LET probs == [i \in 1..NumElems(shape) |-> Sigmoid(logits[i])]
        dice == DiceTerms(probs, targets, shape)
        tflat == FlattenTargets(targets, shape)
    IN  IF Broadcastable(tflat.shape, shape)
        THEN [status |-> "ok", dice |-> dice, terms |-> FocalTerms(probs, shape, tflat)]
        ELSE [status |-> "RuntimeError: shapes cannot be broadcast",
              dice |-> <<>>, terms |-> <<>>]

SeqToBag(s) ==
    [x \in {s[i] : i \in DOMAIN s} |-> Cardinality({i \in DOMAIN s : s[i] = x})]

\* the returned scalar in canonical form: each mean as the bag of its terms
\* (a sum of reals does not depend on the order of its terms)
LossValue(res) ==
    [dice |-> SeqToBag(res.dice),
     focal |-> SeqToBag([k \in DOMAIN res.terms |-> res.terms[k].pt])]

\* a tensor with its samples reordered along the batch axis
PermuteBatch(x, shape, perm) ==
    LET per == shape[2] * shape[3] * shape[4]
    IN  [i \in 1..NumElems(shape) |->
            x[(perm[((i - 1) \div per) + 1] - 1) * per + ((i - 1) % per) + 1]]

LossShapes ==
    {s \in (1..MaxLossBatch) \X (1..MaxElems) \X (1..MaxElems) \X (1..MaxElems) :
        s[1] * s[2] * s[3] * s[4] <= MaxElems}

StartLoss ==
    /\ loss_pc = "ready"
    /\ loss_shape \in LossShapes
    /\ loss_logits \in [1..NumElems(loss_shape) -> LogitChoices]
    /\ loss_targets \in [1..NumElems(loss_shape) -> {0, 1}]
    /\ loss_res = NoRes
    /\ loss_prev = NoRes

IdleLoss ==
    /\ loss_pc = "idle"
    /\ loss_shape = <<>>
    /\ loss_logits = <<>>
    /\ loss_targets = <<>>
    /\ loss_res = NoRes
    /\ loss_prev = NoRes

\* criterion(logits, targets)
LossForward ==
    /\ loss_pc \in {"ready", "permuted"}
    /\ loss_res' = DiceFocalForward(loss_logits, loss_targets, loss_shape)
    /\ loss_pc' = IF loss_res'.status # "ok" THEN "failed"
                  ELSE IF loss_pc = "ready" THEN "done" ELSE "done2"
    /\ UNCHANGED <<loss_shape, loss_logits, loss_targets, loss_prev>>
    /\ UNCHANGED <<netvars, datavars, testvars, sweepvars>>

\* the caller reorders the samples of an accepted batch, logits and targets alike
Permute ==
    /\ loss_pc = "done"
    /\ \E perm \in Permutations(1..loss_shape[1]) :
          /\ \E b \in 1..loss_shape[1] : perm[b] # b
          /\ loss_logits' = PermuteBatch(loss_logits, loss_shape, perm)
          /\ loss_targets' = PermuteBatch(loss_targets, loss_shape, perm)
    /\ loss_prev' = loss_res
    /\ loss_res' = NoRes
    /\ loss_pc' = "permuted"
    /\ UNCHANGED loss_shape
    /\ UNCHANGED <<netvars, datavars, testvars, sweepvars>>

--------------------------------------------------------------------------
(* dataloader.py: UltrasoundSegmentationDataset, the joint transforms and
   create_ultrasound_dataloaders

   A file name is the sequence of its characters, with the extension as one
   token.  A PIL image is its mode and its size <<width, height>>; a tensor
   is its shape. *)

MaxSeqLen == 3   \* sequence_length ranges over 1..MaxSeqLen

ImgA11 == <<"a", "_", "1", "_", "1", ".jpg">>
ImgA12 == <<"a", "_", "1", "_", "2", ".jpg">>
ImgA21 == <<"a", "_", "2", "_", "1", ".jpg">>
ImgB   == <<"b", ".jpg">>
ImgPng == <<"a", "_", "1", "_", "1", ".png">>
LblM11 == <<"m", "_", "1", "_", "1", ".png">>
LblM12 == <<"m", "_", "1", "_", "2", "_", "1", ".png">>
LblM21 == <<"m", "_", "2", "_", "1", ".png">>
LblZ   == <<"z", ".png">>

ImageNames == {ImgA11, ImgA12, ImgA21, ImgB, ImgPng}
LabelNames == {LblM11, LblM12, LblM21, LblZ}

\* sizes <<width, height>> of the files on disk, and image_size arguments
DiskSizes == {<<1, 2>>, <<2, 1>>, <<2, 2>>}
ImageSizeChoices == {<<2, 1>>}
BatchSizeChoices == {2}
ValSplitChoices == {20, 50}      \* val_split in percent

\* code point order of the characters the names are made of
TokRank(c) ==
    CASE c = ".jpg" -> 1 [] c = ".png" -> 2 [] c = "1" -> 3 [] c = "2" -> 4
      [] c = "_" -> 5 [] c = "a" -> 6 [] c = "b" -> 7 [] c = "m" -> 8
      [] c = "z" -> 9

\* Python's str ordering
StrLeq(s, t) ==
    LET differ == {i \in 1..Len(s) : i > Len(t) \/ s[i] # t[i]}
    IN  IF differ = {} THEN TRUE
        ELSE LET i == CHOOSE k \in differ : \A j \in differ : k <= j
             IN  i <= Len(t) /\ TokRank(s[i]) < TokRank(t[i])

\* sorted(names)
Sorted(names) ==
    [k \in 1..Cardinality(names) |->
        CHOOSE x \in names : Cardinality({y \in names : StrLeq(y, x)}) = k]

EndsWithJpg(f) == Len(f) >= 1 /\ f[Len(f)] = ".jpg"

IsDigit(c) == c \in {"1", "2"}

\* the least element of a set of positions, 0 when it is empty
MinOrZero(S) == IF S = {} THEN 0 ELSE CHOOSE x \in S : \A y \in S : x <= y

\* length of the run of digits that starts at position i
DigitRun(s, i) ==
    CHOOSE n \in 0..Len(s) :
        /\ \A j \in i..(i + n - 1) : j <= Len(s) /\ IsDigit(s[j])
        /\ ~(i + n <= Len(s) /\ IsDigit(s[i + n]))

\* after "_" at i and d1 digits: "_" and at least one more digit
IdTailAt(s, i, d1) ==
    /\ d1 >= 1
    /\ i + 1 + d1 <= Len(s)
    /\ s[i + 1 + d1] = "_"
    /\ DigitRun(s, i + 2 + d1) >= 1

\* the pattern _(\d+_\d+) matches at position i
IdMatchAt(s, i) == s[i] = "_" /\ IdTailAt(s, i, DigitRun(s, i + 1))

\* group 1 of the match at position i, whose first run has d1 digits
IdGroup(s, i, d1) == SubSeq(s, i + 1, i + 1 + d1 + DigitRun(s, i + 2 + d1))

\* re.search: the leftmost match (i = 0: none, so ValueError, ok = FALSE)
ExtractAt(s, i) ==
    IF i = 0 THEN [ok |-> FALSE, id |-> <<>>]
    ELSE [ok |-> TRUE, id |-> IdGroup(s, i, DigitRun(s, i + 1))]

\* _extract_id
ExtractId(s) == ExtractAt(s, MinOrZero({i \in 1..Len(s) : IdMatchAt(s, i)}))

ScanStopsAtMutant(e, id) == TRUE

\* the generator stops at a file whose ID cannot be extracted or matches
ScanStopsAt(e, id) == ~e.ok \/ e.id = id

ScanHit(label, e) ==
    IF e.ok THEN [r |-> "ok", label |-> label]
    ELSE [r |-> "ValueError", label |-> <<>>]

ScanResult(labels, k) ==
    IF k = 0 THEN [r |-> "StopIteration", label |-> <<>>]
    ELSE ScanHit(labels[k], ExtractId(labels[k]))

\* next(f for f in os.listdir(label_dir) if self._extract_id(f) == img_id)
ScanLabel(labels, id) ==
    ScanResult(labels,
               MinOrZero({k \in 1..Len(labels) : ScanStopsAt(ExtractId(labels[k]), id)}))

WindowPick(scans, k) ==
    IF k = 0 THEN [r |-> "ok", labels |-> [j \in 1..Len(scans) |-> scans[j].label]]
    ELSE [r |-> scans[k].r, labels |-> <<>>]

WindowResult(scans) ==
    WindowPick(scans, MinOrZero({k \in 1..Len(scans) : scans[k].r # "ok"}))

\* the labels of a window: one scan per image ID, in order, up to the first
\* scan that raises
WindowLabels(ids, labels) ==
    WindowResult([k \in 1..Len(ids) |-> ScanLabel(labels, ids[k])])

SampleOf(seqImages, w) == [r |-> w.r, sample |-> <<seqImages, w.labels>>]

OneFromIds(seqImages, ids, labels) ==
    IF \E k \in 1..Len(ids) : ~ids[k].ok
    THEN [r |-> "ValueError", sample |-> <<>>]
    ELSE SampleOf(seqImages, WindowLabels([k \in 1..Len(ids) |-> ids[k].id], labels))

\* one iteration of either loop of __init__ on the images seq_images
OneSample(seqImages, labels) ==
    OneFromIds(seqImages, [k \in 1..Len(seqImages) |-> ExtractId(seqImages[k])], labels)

SampleOk(one) == one.r = "ok"

SamplesOf(kept) == [k \in 1..Len(kept) |-> kept[k].sample]

Collected(ones) ==
    IF \E i \in 1..Len(ones) : ones[i].r = "ValueError"
    THEN [r |-> "ValueError", samples |-> <<>>]
    ELSE [r |-> "ok", samples |-> SamplesOf(SelectSeq(ones, SampleOk))]

\* the loop over the window starts 1 .. last: a ValueError leaves __init__,
\* a StopIteration skips the window, any other window is appended
CollectSamples(files, labels, T, last) ==
    Collected([i \in 1..last |-> OneSample(SubSeq(files, i, i + T - 1), labels)])

NoDataset == [transform |-> <<>>, sequence_length |-> 0, image_files |-> <<>>,
              samples |-> <<>>, err |-> "none"]

DatasetOf(transform, T, files, got) ==
    [transform |-> transform, sequence_length |-> T, image_files |-> files,
     samples |-> got.samples, err |-> IF got.r = "ok" THEN "none" ELSE got.r]

DatasetFrom(files, labels, transform, T) ==
    DatasetOf(transform, T, files,
              IF T > 1
              THEN CollectSamples(files, labels, T, Len(files) - T + 1)
              ELSE CollectSamples(files, labels, 1, Len(files)))

\* UltrasoundSegmentationDataset.__init__
DatasetInit(imageDir, labels, transform, T) ==
    DatasetFrom(Sorted({f \in imageDir : EndsWithJpg(f)}), labels, transform, T)

Resize(size) == [op |-> "Resize", size |-> size]
Grayscale == [op |-> "Grayscale", size |-> <<>>]
PILToTensor == [op |-> "PILToTensor", size |-> <<>>]

Pil(mode, size) == [kind |-> "pil", mode |-> mode, size |-> size, shape |-> <<>>]

\* transforms.ToTensor: a PIL image of size (w, h) becomes a (C, h, w) tensor
ToTensor(img) ==
    [kind |-> "tensor", mode |-> img.mode, size |-> <<>>,
     shape |-> <<IF img.mode = "RGB" THEN 3 ELSE 1, img.size[2], img.size[1]>>]

\* one joint transform applied to <<image, label>>
ApplyTransform(t, pair) ==
    CASE t.op = "Resize" ->
            <<Pil(pair[1].mode, t.size), Pil(pair[2].mode, t.size)>>
      [] t.op = "Grayscale" ->
            <<Pil("L", pair[1].size), pair[2]>>
      [] t.op = "PILToTensor" ->
            <<ToTensor(pair[1]), ToTensor(pair[2])>>

\* JointTransform.__call__
RECURSIVE JointTransform(_, _)
JointTransform(transforms, pair) ==
    IF transforms = <<>> THEN pair
    ELSE JointTransform(Tail(transforms), ApplyTransform(Head(transforms), pair))

\* __getitem__: the shapes of the image tensor and the label tensor of sample idx
ItemOf(ds, T, one) ==
    IF ds.sequence_length > 1
    THEN [image |-> <<T>> \o one[1].shape, label |-> <<T>> \o one[2].shape]
    ELSE [image |-> one[1].shape, label |-> one[2].shape]

GetItem(ds, idx, diskSize) ==
    ItemOf(ds, Len(ds.samples[idx][1]),
           JointTransform(ds.transform, <<Pil("RGB", diskSize), Pil("L", diskSize)>>))

\* the default collate of a DataLoader: the items stacked along a new axis
Stacked(n, item) == [image |-> <<n>> \o item.image, label |-> <<n>> \o item.label]

Collate(ds, idxs, diskSize) ==
    Stacked(Cardinality(idxs), GetItem(ds, CHOOSE i \in idxs : TRUE, diskSize))

NoLoaders == [image_size |-> <<>>, batch_size |-> 0, train |-> {}, val |-> {}]

NoBatch == [from |-> "none", idxs |-> {}, image |-> <<>>, label |-> <<>>]

\* the sizes of the batches a loader over n samples yields
BatchLens(n, batchSize) ==
    (IF n >= batchSize THEN {batchSize} ELSE {})
        \cup (IF n % batchSize # 0 THEN {n % batchSize} ELSE {})

StartData ==
    /\ data_pc = "fs"
    /\ image_dir \in SUBSET ImageNames
    /\ \E names \in SUBSET LabelNames :
          label_dir \in {s \in [1..Cardinality(names) -> names] :
                            \A i, j \in 1..Cardinality(names) : i # j => s[i] # s[j]}
    /\ disk_size \in DiskSizes
    /\ dataset = NoDataset
    /\ loaders = NoLoaders
    /\ batch = NoBatch

IdleData ==
    /\ data_pc = "idle"
    /\ image_dir = {}
    /\ label_dir = <<>>
    /\ disk_size = <<>>
    /\ dataset = NoDataset
    /\ loaders = NoLoaders
    /\ batch = NoBatch

\* random_split and the two DataLoaders over a dataset of n samples
MakeLoaders(S, bs, n, valSize) ==
    \E val \in {v \in SUBSET (1..n) : Cardinality(v) = valSize} :
        loaders' = [image_size |-> S, batch_size |-> bs,
                    train |-> (1..n) \ val, val |-> val]

\* the rest of create_ultrasound_dataloaders once full_dataset is built (or
\* its construction raised)
SplitAndLoad(S, bs, split, full, tensor_transforms) ==
    IF full.err # "none"
    THEN /\ data_pc' = "failed"
         /\ dataset' = [NoDataset EXCEPT !.err = full.err]
         /\ loaders' = NoLoaders
    ELSE /\ data_pc' = "loaders"
         /\ dataset' = [full EXCEPT !.transform = tensor_transforms]
         /\ MakeLoaders(S, bs, Len(full.samples), (split * Len(full.samples)) \div 100)

\* joint_transforms = JointTransform([Resize(image_size)]) is built and not
\* used; the dataset gets tensor_transforms
CreateWith(S, bs, split, T, joint_transforms, tensor_transforms) ==
    SplitAndLoad(S, bs, split,
                 DatasetInit(image_dir, label_dir, tensor_transforms, T),
                 tensor_transforms)

\* create_ultrasound_dataloaders(image_dir, label_dir, batch_size, val_split,
\* image_size=S, sequence_length=T)
CreateLoaders ==
    /\ data_pc = "fs"
    /\ \E S \in ImageSizeChoices, bs \in BatchSizeChoices,
          split \in ValSplitChoices, T \in 1..MaxSeqLen :
          CreateWith(S, bs, split, T, <<Resize(S)>>, <<Grayscale, PILToTensor>>)
    /\ UNCHANGED <<image_dir, label_dir, disk_size, batch>>
    /\ UNCHANGED <<netvars, lossvars, testvars, sweepvars>>

BatchOf(from, idxs, b) ==
    [from |-> from, idxs |-> idxs, image |-> b.image, label |-> b.label]

YieldFrom(from, subset) ==
    \E idxs \in SUBSET subset :
        /\ Cardinality(idxs) \in BatchLens(Cardinality(subset), loaders.batch_size)
        /\ batch' = BatchOf(from, idxs, Collate(dataset, idxs, disk_size))

\* next(iter(loader)) and the later batches of the train or the val loader
NextBatch ==
    /\ data_pc \in {"loaders", "batch"}
    /\ \E from \in {"train", "val"} :
          YieldFrom(from, IF from = "train" THEN loaders.train ELSE loaders.val)
    /\ data_pc' = "batch"
    /\ UNCHANGED <<image_dir, label_dir, disk_size, dataset, loaders>>
    /\ UNCHANGED <<netvars, lossvars, testvars, sweepvars>>

--------------------------------------------------------------------------
(* test.py: get_test_loader, evaluate, save_metrics_to_csv and main

   A target is the shape of the mask tensor together with the label files
   its frames come from, in time order; the criterion, the metrics and the
   model are the callables evaluate is given: each call returns or raises. *)

ModelNameChoices == {"ConvLSTM", "ResNet18CNN"}
ConfigImageSizes == {<<1024, 256>>, <<256, 256>>}

TestImageNames == {ImgA11, ImgA12, ImgA21, ImgB}
TestLabelNames == {LblM11, LblM12, LblM21}

\* the orders os.listdir can list the names in
Listings(names) ==
    {s \in [1..Cardinality(names) -> names] :
        \A i, j \in 1..Cardinality(names) : i # j => s[i] # s[j]}

NoConfig == [MODEL_NAME |-> "none", SEQUENCE_LENGTH |-> 0, IMAGE_SIZE |-> <<>>]

NoTestFs == [image_dir |-> {}, label_dir |-> <<>>, disk_size |-> <<>>,
             checkpoint |-> FALSE, vis |-> {}, csv |-> FALSE]

NoTarget == [idx |-> 0, shape |-> <<>>, frames |-> <<>>]

NoCalls == [setup |-> "none", data |-> <<>>, criterion |-> NoTarget,
            metrics |-> NoTarget]

\* get_test_loader: the dataset behind DataLoader(batch_size=1, shuffle=False)
GetTestLoader(cfg, fs) ==
    DatasetInit(fs.image_dir, fs.label_dir,
                <<Resize(cfg.IMAGE_SIZE), Grayscale, PILToTensor>>,
                cfg.SEQUENCE_LENGTH)

TargetOf(idx, item, frames) == [idx |-> idx, shape |-> item.label, frames |-> frames]

BatchFrom(idx, item, frames) == [data |-> item.image, target |-> TargetOf(idx, item, frames)]

\* the idx-th (data, target) of the test loader: sample idx with a batch axis
TestBatch(ds, idx, diskSize) ==
    BatchFrom(idx, Stacked(1, GetItem(ds, idx, diskSize)), ds.samples[idx][2])

\* target[:, -1, :, :]: the last index of the second axis (the time axis of a
\* rank-5 target, the channel axis of a rank-4 one)
SelectLast(t) ==
    [idx |-> t.idx,
     shape |-> <<t.shape[1]>> \o SubSeq(t.shape, 3, Len(t.shape)),
     frames |-> IF Len(t.shape) = 5 THEN <<t.frames[Len(t.frames)]>> ELSE t.frames]

\* evaluate, lines 46-47
EvalTarget(cfg, target) ==
    IF cfg.MODEL_NAME = "ConvLSTM" THEN SelectLast(target) ELSE target

\* which call of an iteration raises, if any
BatchOutcomes == {"ok", "model", "criterion", "metrics"}

\* the calls made by one iteration that ends as outcome says
CallsAfter(prev, outcome, data, target) ==
    [setup |-> prev.setup,
     data |-> data,
     criterion |-> IF outcome = "model" THEN prev.criterion ELSE target,
     metrics |-> IF outcome \in {"ok", "metrics"} THEN target ELSE prev.metrics]

\* which step of main's set-up raises, if any
SetupOutcomes == {"ok", "get_model", "load"}

\* the error lines 93-103 of main end with, "none" when they complete
SetupErrorMutant(loader, outcome, checkpoint) ==
    IF loader.err # "none" THEN loader.err
    ELSE IF outcome = "get_model" THEN "ModelError"
    ELSE IF checkpoint /\ outcome = "load" THEN "LoadError"
    ELSE "none"

SetupError(loader, outcome, checkpoint) ==
    IF loader.err # "none" THEN loader.err
    ELSE IF outcome = "get_model" THEN "ModelError"
    ELSE IF ~checkpoint THEN "FileNotFoundError"
    ELSE IF outcome = "load" THEN "LoadError"
    ELSE "none"

\* the last step of the set-up that completed
SetupReached(loader, outcome, checkpoint) ==
    IF loader.err # "none" THEN "none"
    ELSE IF outcome = "get_model" THEN "get_test_loader"
    ELSE IF SetupError(loader, outcome, checkpoint) # "none" THEN "get_loss_fn"
    ELSE "load_state_dict"

StartMain ==
    /\ test_pc = "main"
    /\ config \in [MODEL_NAME : ModelNameChoices,
                   SEQUENCE_LENGTH : 1..MaxSeqLen,
                   IMAGE_SIZE : ConfigImageSizes]
    /\ \E images \in SUBSET TestImageNames, names \in SUBSET TestLabelNames,
          size \in DiskSizes, ckpt \in BOOLEAN :
          \E labels \in Listings(names) :
              test_fs = [image_dir |-> images, label_dir |-> labels,
                         disk_size |-> size, checkpoint |-> ckpt,
                         vis |-> {}, csv |-> FALSE]
    /\ test_loader = NoDataset
    /\ test_idx = 0
    /\ test_calls = NoCalls
    /\ test_err = "none"

IdleTest ==
    /\ test_pc = "idle"
    /\ config = NoConfig
    /\ test_fs = NoTestFs
    /\ test_loader = NoDataset
    /\ test_idx = 0
    /\ test_calls = NoCalls
    /\ test_err = "none"

SetupDone(loader, outcome, err) ==
    /\ test_pc' = IF err = "none" THEN "eval" ELSE "failed"
    /\ test_err' = err
    /\ test_loader' = IF loader.err = "none" THEN loader ELSE NoDataset
    /\ test_calls' = [test_calls EXCEPT
                        !.setup = SetupReached(loader, outcome, test_fs.checkpoint)]

\* main, lines 91-103: the loader, the model, the criterion, the checkpoint
MainSetup ==
    /\ test_pc = "main"
    /\ \E outcome \in SetupOutcomes :
          SetupDone(GetTestLoader(config, test_fs), outcome,
                    SetupError(GetTestLoader(config, test_fs), outcome,
                               test_fs.checkpoint))
    /\ UNCHANGED <<config, test_fs, test_idx>>
    /\ UNCHANGED <<netvars, lossvars, datavars, sweepvars>>

BatchDone(outcome, b) ==
    /\ test_calls' = CallsAfter(test_calls, outcome, b.data,
                                EvalTarget(config, b.target))
    /\ IF outcome = "ok"
       THEN /\ test_idx' = test_idx + 1
            /\ test_fs' = [test_fs EXCEPT !.vis = @ \cup {test_idx + 1}]
            /\ UNCHANGED <<test_pc, test_err>>
       ELSE /\ test_pc' = "failed"
            /\ test_err' = "RuntimeError"
            /\ UNCHANGED <<test_idx, test_fs>>

\* evaluate, lines 44-70: one iteration of the loop over the test loader
EvaluateBatch ==
    /\ test_pc = "eval"
    /\ test_idx < Len(test_loader.samples)
    /\ \E outcome \in BatchOutcomes :
          BatchDone(outcome, TestBatch(test_loader, test_idx + 1, test_fs.disk_size))
    /\ UNCHANGED <<config, test_loader>>
    /\ UNCHANGED <<netvars, lossvars, datavars, sweepvars>>

\* evaluate, lines 72-75 (total_loss / len(test_loader)), then main, lines
\* 106-108: save_metrics_to_csv
EvaluateReturn ==
    /\ test_pc = "eval"
    /\ test_idx = Len(test_loader.samples)
    /\ IF Len(test_loader.samples) = 0
       THEN /\ test_pc' = "failed"
            /\ test_err' = "ZeroDivisionError"
            /\ UNCHANGED test_fs
       ELSE /\ test_pc' = "saved"
            /\ test_fs' = [test_fs EXCEPT !.csv = TRUE]
            /\ UNCHANGED test_err
    /\ UNCHANGED <<config, test_loader, test_idx, test_calls>>
    /\ UNCHANGED <<netvars, lossvars, datavars, sweepvars>>

--------------------------------------------------------------------------
(* run_all.py: the sweep over the (model, loss) combinations

   subprocess.run blocks until the child exits; a child is an entry of
   sweep_log, exited = FALSE while it runs, rc its exit status afterwards. *)

ModelNameLists == {<<"ResNet18CNN">>, <<"ResNet18CNN", "ConvLSTM">>}
LossFnLists == {<<"DiceLoss", "DiceFocalLoss", "AsymmetricFocalTverskyLoss">>,
                <<"DiceLoss", "DiceFocalLoss">>}
ExitCodes == {0, 1, 2}

\* itertools.product(model_names, loss_functions), the last index fastest
Product(models, losses) ==
    [k \in 1..(Len(models) * Len(losses)) |->
        <<models[((k - 1) \div Len(losses)) + 1], losses[((k - 1) % Len(losses)) + 1]>>]

\* seq_len = 3 if model_name == "ConvLSTM" else 1
SeqLenFor(model_name) == IF model_name = "ConvLSTM" THEN 3 ELSE 1

\* the experiment name: the model and the loss (the epochs and the learning
\* rate are the same for all)
ExperimentName(combo) == <<combo[1], combo[2]>>

NoEnv == [MODEL_NAME |-> "none", LOSS_FN |-> "none", SEQUENCE_LENGTH |-> 0,
          EXPERIMENT_NAME |-> <<>>]

EnvFor(combo) ==
    [MODEL_NAME |-> combo[1], LOSS_FN |-> combo[2],
     SEQUENCE_LENGTH |-> SeqLenFor(combo[1]),
     EXPERIMENT_NAME |-> ExperimentName(combo)]

Child(script, combo) ==
    [script |-> script, exp |-> ExperimentName(combo), exited |-> FALSE, rc |-> 0]

\* subprocess.run(..., check=True) raises CalledProcessError on this exit status
CheckRaisesMutant(rc) == FALSE

CheckRaises(rc) == rc # 0

\* the log once the running child has exited with rc
Exited(log, rc) == [log EXCEPT ![Len(log)].exited = TRUE, ![Len(log)].rc = rc]

StartSweep ==
    /\ sweep_pc = "loop"
    /\ \E models \in ModelNameLists, losses \in LossFnLists :
          sweep_combos = Product(models, losses)
    /\ sweep_i = 0
    /\ sweep_env = NoEnv
    /\ sweep_log = <<>>
    /\ sweep_out = <<>>

IdleSweep ==
    /\ sweep_pc = "idle"
    /\ sweep_combos = <<>>
    /\ sweep_i = 0
    /\ sweep_env = NoEnv
    /\ sweep_log = <<>>
    /\ sweep_out = <<>>

\* lines 13-32: the next combination, its environment, its training child
StartTrain ==
    /\ sweep_pc = "loop"
    /\ sweep_i < Len(sweep_combos)
    /\ sweep_env' = EnvFor(sweep_combos[sweep_i + 1])
    /\ sweep_out' = sweep_out \o <<"Running", "Training">>
    /\ sweep_log' = Append(sweep_log, Child("train.py", sweep_combos[sweep_i + 1]))
    /\ sweep_pc' = "training"
    /\ UNCHANGED <<sweep_combos, sweep_i>>
    /\ UNCHANGED <<netvars, lossvars, datavars, testvars>>

\* line 32: the training child exits
TrainExit ==
    /\ sweep_pc = "training"
    /\ \E rc \in ExitCodes :
          /\ sweep_log' = Exited(sweep_log, rc)
          /\ sweep_pc' = IF CheckRaises(rc) THEN "failed" ELSE "trained"
    /\ UNCHANGED <<sweep_combos, sweep_i, sweep_env, sweep_out>>
    /\ UNCHANGED <<netvars, lossvars, datavars, testvars>>

\* lines 35-36: the test child of the same combination
StartTest ==
    /\ sweep_pc = "trained"
    /\ sweep_out' = Append(sweep_out, "Testing")
    /\ sweep_log' = Append(sweep_log, Child("test.py", sweep_combos[sweep_i + 1]))
    /\ sweep_pc' = "testing"
    /\ UNCHANGED <<sweep_combos, sweep_i, sweep_env>>
    /\ UNCHANGED <<netvars, lossvars, datavars, testvars>>

\* line 36: the test child exits
TestExit ==
    /\ sweep_pc = "testing"
    /\ \E rc \in ExitCodes :
          /\ sweep_log' = Exited(sweep_log, rc)
          /\ sweep_pc' = IF CheckRaises(rc) THEN "failed" ELSE "loop"
          /\ sweep_i' = IF CheckRaises(rc) THEN sweep_i ELSE sweep_i + 1
    /\ UNCHANGED <<sweep_combos, sweep_env, sweep_out>>
    /\ UNCHANGED <<netvars, lossvars, datavars, testvars>>

\* line 38, after the last combination
Complete ==
    /\ sweep_pc = "loop"
    /\ sweep_i = Len(sweep_combos)
    /\ sweep_out' = Append(sweep_out, "All experiments completed")
    /\ sweep_pc' = "done"
    /\ UNCHANGED <<sweep_combos, sweep_i, sweep_env, sweep_log>>
    /\ UNCHANGED <<netvars, lossvars, datavars, testvars>>

--------------------------------------------------------------------------
(* Specifications *)

InitNet == StartNet /\ IdleLoss /\ IdleData /\ IdleTest /\ IdleSweep

InitLoss == IdleNet /\ StartLoss /\ IdleData /\ IdleTest /\ IdleSweep

InitData == IdleNet /\ IdleLoss /\ StartData /\ IdleTest /\ IdleSweep

InitTest == IdleNet /\ IdleLoss /\ IdleData /\ StartMain /\ IdleSweep

InitSweep == IdleNet /\ IdleLoss /\ IdleData /\ IdleTest /\ StartSweep

Init == InitNet \/ InitLoss \/ InitData \/ InitTest \/ InitSweep

NextNet == Construct \/ Forward \/ UpConvForward

NextLoss == LossForward \/ Permute

NextData == CreateLoaders \/ NextBatch

NextTest == MainSetup \/ EvaluateBatch \/ EvaluateReturn

NextSweep == StartTrain \/ TrainExit \/ StartTest \/ TestExit \/ Complete

Next == NextNet \/ NextLoss \/ NextData \/ NextTest \/ NextSweep

SpecNet == InitNet /\ [][NextNet]_vars

SpecLoss == InitLoss /\ [][NextLoss]_vars

SpecData == InitData /\ [][NextData]_vars

SpecTest == InitTest /\ [][NextTest]_vars

SpecSweep == InitSweep /\ [][NextSweep]_vars

Spec == Init /\ [][Next]_vars

--------------------------------------------------------------------------
(* Claims about ResNet18CNN and UpConvResnet (checked under SpecNet) *)

\* the backbone's total down-sampling factor (e4 has size H/32, W/32)
DownFactor == 32

ForwardDone == net_pc \in {"ran", "failed"}

\* C1: for every input (B, C, H, W) with H and W positive multiples of 32 the
\* forward returns logits of shape (B, num_classes, H, W).
C1_LogitsKeepInputSize ==
    (ForwardDone /\ net_in[3] % DownFactor = 0 /\ net_in[4] % DownFactor = 0)
        => /\ net_pc = "ran"
           /\ net_err = "none"
           /\ net_out = <<net_in[1], net.num_classes, net_in[3], net_in[4]>>

\* a batch of two 64 x 32 inputs went through a five-class model
C1_Witness ==
    /\ net_pc = "ran"
    /\ net.num_classes = 5
    /\ net_in = <<2, net.in_channels, 2 * DownFactor, DownFactor>>
    /\ net_out = <<2, 5, 2 * DownFactor, DownFactor>>
    /\ Len(net_cats) = 4

\* C2: constructing with pretrained = True and in_channels # 3 fails; no
\* instance is returned and no fresh first convolution is built for it.
C2_PretrainedMismatchRejected ==
    ~(/\ net_pc \in {"built", "ran", "failed"}
      /\ net.pretrained
      /\ net.in_channels # 3)

\* C4: in a forward, at each of the four concatenations the aligned decoder
\* tensor and the skip tensor have the same height and width, for every
\* input size.
C4_CatSizesEqual ==
    ForwardDone =>
        /\ Len(net_cats) = 4
        /\ \A i \in 1..Len(net_cats) : net_cats[i].dec = net_cats[i].skip

\* C5: whenever alignment pads, along each axis the leading pad is
\* floor(diff / 2), the trailing pad is diff - floor(diff / 2), and the two
\* add up to diff, for odd and even diff, in UpConvResnet and in the final
\* stage alike.
C5_AxisSplit(diff, split) ==
    /\ 2 * split[1] <= diff
    /\ diff < 2 * split[1] + 2
    /\ split[2] = diff - split[1]
    /\ split[1] + split[2] = diff

C5_PadSplit ==
    \A i \in 1..Len(net_cats) :
        net_cats[i].padded =>
            /\ C5_AxisSplit(net_cats[i].diffY, net_cats[i].padY)
            /\ C5_AxisSplit(net_cats[i].diffX, net_cats[i].padX)

\* an odd positive height difference and an odd negative width difference
\* were split by a stand-alone UpConvResnet
C5_Witness ==
    /\ net_pc = "up"
    /\ Len(net_cats) = 1
    /\ net_cats[1].padded
    /\ net_cats[1].diffY = 1
    /\ net_cats[1].padY = <<0, 1>>
    /\ net_cats[1].diffX = -3
    /\ net_cats[1].padX = <<-2, -1>>

--------------------------------------------------------------------------
(* Claims about DiceFocalLoss (checked under SpecLoss) *)

LossCalled == loss_pc \in {"done", "done2", "failed"}

LossReturned == loss_pc \in {"done", "done2"}

\* C3: for logits and {0,1} targets of the same shape (B, C, H, W) forward
\* returns a scalar without a shape or broadcasting error, and its pixel term
\* has one element per position, pairing the probability and the target of
\* that same position.
C3_PixelTermElementwise ==
    LossCalled =>
        /\ loss_res.status = "ok"
        /\ Len(loss_res.terms) = NumElems(loss_shape)
        /\ \A k \in 1..Len(loss_res.terms) :
              loss_res.terms[k].p = k /\ loss_res.terms[k].t = k

\* C6 as stated: every per-element pixel loss is >= 0.
C6_PixelTermNonNegative ==
    LossReturned =>
        \A k \in 1..Len(loss_res.terms) : loss_res.terms[k].sign >= 0

\* C6 amended: the per-element pixel loss is >= 0 whenever
\* p_t + smooth <= 1 or p_t = 1, and it is negative for 1 - smooth < p_t < 1.
C6_NonNegativeUnlessNearOne ==
    LossReturned =>
        \A k \in 1..Len(loss_res.terms) :
            LET term == loss_res.terms[k]
            IN  /\ (term.pt + SMOOTH <= ONE \/ term.pt = ONE) => term.sign >= 0
                /\ (ONE - SMOOTH < term.pt /\ term.pt < ONE) => term.sign < 0

\* a returned loss with a term at p_t = 0 (positive) and a term at p_t = 1 (zero)
C6_Witness ==
    /\ LossReturned
    /\ \E k \in 1..Len(loss_res.terms) :
          loss_res.terms[k].pt = 0 /\ loss_res.terms[k].sign = 1
    /\ \E k \in 1..Len(loss_res.terms) :
          loss_res.terms[k].pt = ONE /\ loss_res.terms[k].sign = 0

ProbsEqualTargets ==
    \A i \in 1..NumElems(loss_shape) :
        Sigmoid(loss_logits[i]) = loss_targets[i] * ONE

\* C7: when the probabilities equal the {0,1} targets everywhere, every
\* Dice coefficient is exactly 1 and the region loss 1 - mean(Dice) is 0.
C7_DiceOneOnExactMatch ==
    (LossReturned /\ ProbsEqualTargets) =>
        /\ Len(loss_res.dice) = loss_shape[1] * loss_shape[2]
        /\ \A k \in 1..Len(loss_res.dice) : loss_res.dice[k][1] = loss_res.dice[k][2]
        /\ RegionLoss(loss_res.dice) = <<0, 1>>

\* an exact match on two samples, one with foreground and one all-zero
C7_Witness ==
    /\ loss_pc = "done"
    /\ ProbsEqualTargets
    /\ loss_shape = <<2, 1, 2, 1>>
    /\ loss_targets = <<1, 0, 0, 0>>
    /\ loss_res.dice = <<<<2 * ONE + SMOOTH, 2 * ONE + SMOOTH>>, <<SMOOTH, SMOOTH>>>>

\* C8: permuting the samples of an accepted batch, logits and targets alike,
\* does not change the returned scalar.
C8_BatchOrderInvariant ==
    loss_pc = "done2" =>
        /\ loss_prev.status = "ok"
        /\ LossValue(loss_res) = LossValue(loss_prev)

\* two different samples were swapped and the loss was computed again
C8_Witness ==
    /\ loss_pc = "done2"
    /\ loss_shape = <<2, 1, 2, 1>>
    /\ SubSeq(loss_logits, 1, 2) # SubSeq(loss_logits, 3, 4)
    /\ SubSeq(loss_targets, 1, 2) # SubSeq(loss_targets, 3, 4)
    /\ loss_res.dice # loss_prev.dice

--------------------------------------------------------------------------
(* Claims about the dataset and the loaders (checked under SpecData) *)

\* the height and width of a tensor of the given shape
SpatialOf(shape) == SubSeq(shape, Len(shape) - 1, Len(shape))

\* what a file of the size on disk becomes under Resize(S), Grayscale, PILToTensor
C9_Resized(S) ==
    JointTransform(<<Resize(S), Grayscale, PILToTensor>>,
                   <<Pil("RGB", disk_size), Pil("L", disk_size)>>)

\* C9: every image and mask of a batch yielded by the train and val loaders of
\* create_ultrasound_dataloaders(image_size=S) has been resized to S, whatever
\* the size on disk: its height and width are those Resize(S) produces.
C9_BatchesResized ==
    data_pc = "batch" =>
        /\ SpatialOf(batch.image) = SpatialOf(C9_Resized(loaders.image_size)[1].shape)
        /\ SpatialOf(batch.label) = SpatialOf(C9_Resized(loaders.image_size)[2].shape)

\* the frame IDs of the file names, read off the names
C10_IdOf(f) ==
    CASE f \in {ImgA11, ImgPng, LblM11} -> "1_1"
      [] f \in {ImgA12, LblM12} -> "1_2"
      [] f \in {ImgA21, LblM21} -> "2_1"
      [] OTHER -> "none"

C10_Constructed == data_pc \in {"loaders", "batch"} /\ dataset.sequence_length > 1

C10_IsWindow(images) ==
    \E i \in 1..(Len(dataset.image_files) - dataset.sequence_length + 1) :
        images = SubSeq(dataset.image_files, i, i + dataset.sequence_length - 1)

C10_Unlabelled(f) == \A k \in 1..Len(label_dir) : C10_IdOf(label_dir[k]) # C10_IdOf(f)

\* C10: after construction with sequence_length T > 1 every sample holds
\* exactly T images that are consecutive in the sorted image list and exactly
\* T labels, the i-th label having the ID of the i-th image; a window with an
\* image that has no ID-matching label contributes no sample; there are at
\* most max(0, N - T + 1) samples.
C10_SamplesAreMatchedWindows ==
    C10_Constructed =>
        /\ \A n \in 1..Len(dataset.samples) :
              LET images == dataset.samples[n][1]
                  labels == dataset.samples[n][2]
              IN  /\ Len(images) = dataset.sequence_length
                  /\ Len(labels) = dataset.sequence_length
                  /\ C10_IsWindow(images)
                  /\ \A k \in 1..Len(images) :
                        /\ C10_IdOf(images[k]) # "none"
                        /\ C10_IdOf(labels[k]) = C10_IdOf(images[k])
                        /\ \E j \in 1..Len(label_dir) : label_dir[j] = labels[k]
                  /\ \A k \in 1..Len(images) : ~C10_Unlabelled(images[k])
        /\ Len(dataset.samples) <=
              IF Len(dataset.image_files) - dataset.sequence_length + 1 > 0
              THEN Len(dataset.image_files) - dataset.sequence_length + 1 ELSE 0

\* three images, labels for the first two only: the window (1, 2) is a
\* sample, the window (2, 3) is skipped
C10_Witness ==
    /\ C10_Constructed
    /\ dataset.sequence_length = 2
    /\ dataset.image_files = <<ImgA11, ImgA12, ImgA21>>
    /\ C10_Unlabelled(ImgA21)
    /\ dataset.samples = << <<<<ImgA11, ImgA12>>, <<LblM11, LblM12>>>> >>

--------------------------------------------------------------------------
(* Claims about test.py (checked under SpecTest) *)

\* the label file of the final time step of sample idx
C11_LastLabel(idx) ==
    test_loader.samples[idx][2][Len(test_loader.samples[idx][2])]

C11_IsLastFrameOnly(call) ==
    call.idx > 0 =>
        /\ call.frames = <<C11_LastLabel(call.idx)>>
        /\ Len(call.shape) = 4

C12_ImageIsHeightByWidth ==
    test_calls.data # <<>> =>
        SubSeq(test_calls.data, Len(test_calls.data) - 2, Len(test_calls.data))
            = <<1, config.IMAGE_SIZE[1], config.IMAGE_SIZE[2]>>

EvaluateCalled ==
    \/ test_pc \in {"eval", "saved"}
    \/ test_idx > 0
    \/ test_calls.data # <<>>
    \/ test_calls.criterion # NoTarget
    \/ test_calls.metrics # NoTarget

\* C14: in main, evaluate runs only on a model whose state was loaded from the
\* best checkpoint; when the checkpoint file does not exist evaluate is never
\* called, no visualisation image and no test_metrics.csv is written, and main,
\* having built the loader, the model and the criterion, raises
\* FileNotFoundError.
C14_NoEvaluationWithoutCheckpoint ==
    /\ EvaluateCalled =>
          test_fs.checkpoint /\ test_calls.setup = "load_state_dict"
    /\ ~test_fs.checkpoint =>
          /\ ~EvaluateCalled
          /\ test_fs.vis = {}
          /\ ~test_fs.csv
          /\ test_calls.setup = "get_loss_fn" =>
                test_pc = "failed" /\ test_err = "FileNotFoundError"

\* main stopped at the missing checkpoint of a non-empty test set
C14_Witness ==
    /\ ~test_fs.checkpoint
    /\ test_pc = "failed"
    /\ test_err = "FileNotFoundError"
    /\ test_calls.setup = "get_loss_fn"
    /\ Len(test_loader.samples) = 2
    /\ test_fs.vis = {}
    /\ ~test_fs.csv

--------------------------------------------------------------------------
(* Claims about run_all.py (checked under SpecSweep) *)

C13_Failed(child) == child.exited /\ child.rc # 0

\* C13: the test child of a combination is started only after the training
\* child of the same combination has exited successfully; once a child has
\* exited with a failure no later child is started and "All experiments
\* completed" is never printed.
C13_TestAfterTrainAndStopOnFailure ==
    /\ \A k \in 1..Len(sweep_log) :
          sweep_log[k].script = "test.py" =>
              /\ k > 1
              /\ sweep_log[k - 1].script = "train.py"
              /\ sweep_log[k - 1].exp = sweep_log[k].exp
              /\ sweep_log[k - 1].exited
              /\ sweep_log[k - 1].rc = 0
    /\ \A k \in 1..Len(sweep_log) :
          C13_Failed(sweep_log[k]) =>
              /\ k = Len(sweep_log)
              /\ sweep_pc = "failed"
              /\ \A n \in 1..Len(sweep_out) : sweep_out[n] # "All experiments completed"

\* the first combination ran through, the training of the second one failed
C13_Witness ==
    /\ sweep_pc = "failed"
    /\ Len(sweep_log) = 3
    /\ sweep_log[2].script = "test.py" /\ sweep_log[2].exited /\ sweep_log[2].rc = 0
    /\ sweep_log[3].script = "train.py" /\ sweep_log[3].rc = 2
    /\ sweep_i = 1

=============================================================================
